---- MODULE Spec2Model ----
(***************************************************************************)
(* Model of lab4/heap-mgmt/os/memory.c: the physical page (frame)          *)
(* allocator over the freemap bitmap and the per-process buddy heap        *)
(* (malloc / mfree over pcb->heap_array), address translation, the copy    *)
(* between spaces and the page fault handler over pcb->pagetable.          *)
(*                                                                         *)
(* The heap is modelled at the scale of the specification's end-to-end     *)
(* scenario: one heap page of 64 bytes whose root has order 3, so the      *)
(* smallest block is 8 bytes and heap_array holds nodes 1..15.             *)
(***************************************************************************)
EXTENDS Integers, FiniteSets, Sequences, TLC

\* ---------------------------------------------------------------- constants

\* memory.h is not part of the sources; the values below are the ones of the
\* specification's scenario (region 64, minimum block 8, root order 3).
MEM_PAGESIZE == 64
MEM_ROOT_ORDER == 3
MEM_NUM_NODES == 16
MEM_FAIL == -1
NULL == 0
\* the address field of a heap_array slot that no split has written yet
MEM_NO_ADDRESS == -1
\* bits in one freemap word (uint32) and words in the freemap
FREEMAP_WORD_BITS == 32
FREEMAP_WORDS == 16
MEM_SUCCESS == 1
\* the valid bit of a page table entry, and the low bits MEM_MASK_PTE2PAGE clears
MEM_PTE_VALID == 1
MEM_PTE_FLAGS == 8
\* entries of pcb->pagetable: a virtual address space of 8 pages
MEM_NUM_PTES == 8
\* uint32 values are kept modulo 2^16: the page size is scaled from 4096 to
\* 64, and no address of the model reaches 2^16 except a converted MEM_FAIL
UINT_MODULUS == 65536

\* ------------------------------------------------------------------- bounds

\* largest physical memory size offered to MemoryModuleInit, in pages
MaxMemPages == 37
\* frames left free for the one process of the page table model
MaxProcFrames == 3
\* number of heap calls (malloc, mfree) made on the one heap
MaxCalls == 6

\* -------------------------------------------------------------------- state

VARIABLES
  heap_array,   \* pcb->heap_array[1 .. MEM_NUM_NODES-1]
  live,         \* ghost: blocks handed out by malloc and not yet given to mfree
  clean,        \* ghost: every mfree so far was given the address of a live block
  phase,        \* ghost: "alloc" (only mallocs so far), "free" (mallocs then only mfrees), "mixed"
  step,         \* ghost: number of heap calls so far
  last,         \* ghost: the most recent heap call, its argument and its result
  freemap,      \* static uint32 freemap[16], each word as its 32 bits
  nfreepages,   \* static int nfreepages
  pagestart,    \* static uint32 pagestart
  freemapmax,   \* static int freemapmax
  allocd,       \* ghost: frames returned by MemoryAllocPage and not yet freed
  usable,       \* ghost: number of frames MemoryModuleInit marked free
  flast,        \* ghost: the most recent frame call and its result
  pagetable,    \* pcb->pagetable[0 .. MEM_NUM_PTES-1]
  npages,       \* pcb->npages
  killed,       \* ProcessKill() was called for the process
  installed,    \* ghost: the frame MemoryAllocPage gave for each page mapped by a fault
  plast         \* ghost: the most recent call on the page table and its result

heapVars == <<heap_array, live, clean, phase, step, last>>
frameVars == <<freemap, nfreepages, pagestart, freemapmax, allocd, usable, flast>>
procVars == <<pagetable, npages, killed, installed, plast>>
vars == <<heap_array, live, clean, phase, step, last,
          freemap, nfreepages, pagestart, freemapmax, allocd, usable, flast,
          pagetable, npages, killed, installed, plast>>

Nodes == 1 .. (MEM_NUM_NODES - 1)

Max(S) == CHOOSE x \in S : \A y \in S : y <= x
Min(S) == CHOOSE x \in S : \A y \in S : x <= y

\* ----------------------------------------------------------- heap: helpers

\* A heap_array slot before any split has written it: only index is set.
InertNode(i) ==
  [parent |-> NULL, left |-> NULL, right |-> NULL, size |-> 0, order |-> 0,
   address |-> MEM_NO_ADDRESS, index |-> i, inuse |-> 0]

\* The heap of a new process: the root spans the heap page and is unsplit.
HeapInit ==
  [i \in Nodes |->
     IF i = 1
       THEN [InertNode(1) EXCEPT !.size = MEM_PAGESIZE, !.order = MEM_ROOT_ORDER,
                                 !.address = 0]
       ELSE InertNode(i)]

\* a fit test without the lower bound
FitsLoose(memsize, size) == memsize <= size
\* (memsize <= node->size) && (memsize > (node->size / 2))
Fits(memsize, size) == memsize <= size /\ memsize > size \div 2

\* ((MEM_PAGESIZE * 4) | block): block < MEM_PAGESIZE, so the or is a sum
VirtualAddress(block) == (MEM_PAGESIZE * 4) + block

\* ((int)ptr & MEM_PAGE_OFFSET_MASK)
HeapAddress(ptr) == ptr % MEM_PAGESIZE

\* ------------------------------------------------- heap: MemoryNodeSearch

\* Result: ret is the C return value, heap the heap_array afterwards and
\* node the slot that was marked inuse (NULL when none was).
RECURSIVE MemoryNodeSearch(_, _, _)
MemoryNodeSearch(h, node, memsize) ==
  IF node = NULL THEN [ret |-> -1, heap |-> h, node |-> NULL]
  ELSE IF h[node].left = NULL /\ h[node].inuse = 0
    THEN IF Fits(memsize, h[node].size)
           THEN [ret |-> h[node].address,
                 heap |-> [h EXCEPT ![node].inuse = 1],
                 node |-> node]
           ELSE [ret |-> -1, heap |-> h, node |-> NULL]
    ELSE LET l == MemoryNodeSearch(h, h[node].left, memsize)
         IN  IF l.ret >= 0 THEN l
             ELSE MemoryNodeSearch(h, h[node].right, memsize)

\* -------------------------------------------------- heap: MemorySplitNode

\* a split that puts the right child at the address of the left one
SplitChildrenSameAddress(h, node) ==
  LET n == h[node]
      l == 2 * n.index
      r == 2 * n.index + 1
  IN  [h EXCEPT
        ![l].parent = node, ![l].left = NULL, ![l].right = NULL,
        ![l].size = n.size \div 2, ![l].order = n.order - 1,
        ![l].address = n.address,
        ![r].parent = node, ![r].left = NULL, ![r].right = NULL,
        ![r].size = n.size \div 2, ![r].order = n.order - 1,
        ![r].address = n.address,
        ![node].left = l, ![node].right = r]
\* The two children MemorySplitNode writes into heap_array[2*index] and
\* heap_array[2*index+1]; their inuse and index fields are not written.
SplitChildren(h, node) ==
  LET n == h[node]
      l == 2 * n.index
      r == 2 * n.index + 1
  IN  [h EXCEPT
        ![l].parent = node, ![l].left = NULL, ![l].right = NULL,
        ![l].size = n.size \div 2, ![l].order = n.order - 1,
        ![l].address = n.address,
        ![r].parent = node, ![r].left = NULL, ![r].right = NULL,
        ![r].size = n.size \div 2, ![r].order = n.order - 1,
        ![r].address = n.address + (n.size \div 2),
        ![node].left = l, ![node].right = r]

RECURSIVE MemorySplitNode(_, _, _)
MemorySplitNode(h, node, memsize) ==
  IF node = NULL THEN [ret |-> -1, heap |-> h, node |-> NULL]
  ELSE IF h[node].left = NULL /\ h[node].inuse = 0 /\ Fits(memsize, h[node].size)
    THEN [ret |-> h[node].address,
          heap |-> [h EXCEPT ![node].inuse = 1],
          node |-> node]
  ELSE IF h[node].left = NULL /\ h[node].inuse = 0
          /\ ((h[node].size \div 2) < memsize \/ h[node].order = 0)
    THEN [ret |-> -1, heap |-> h, node |-> NULL]
  ELSE LET h1 == IF h[node].left = NULL /\ h[node].inuse = 0
                   THEN SplitChildren(h, node) ELSE h
           l  == MemorySplitNode(h1, h1[node].left, memsize)
       IN  IF l.ret >= 0 THEN l
           ELSE MemorySplitNode(l.heap, l.heap[node].right, memsize)

\* ------------------------------------------------- heap: MemoryCoalescing

\* The set of heap_arrays MemoryCoalescing(node) can leave.  Reading
\* node->parent->right->inuse (or ->left->inuse) through a NULL child link
\* is an undefined read: either value may come back.
RECURSIVE MemoryCoalescing(_, _)
MemoryCoalescing(h, node) ==
  IF node = NULL THEN {h}
  ELSE
    LET h1 == [h EXCEPT ![node].inuse = 0, ![node].left = NULL, ![node].right = NULL]
        p  == h1[node].parent
    IN  IF p = NULL THEN {h1}
        ELSE
          LET buddy == IF h1[p].left = node THEN h1[p].right ELSE h1[p].left
          IN  IF buddy = NULL THEN {h1} \cup MemoryCoalescing(h1, p)
              ELSE IF h1[buddy].inuse = 0 THEN MemoryCoalescing(h1, p)
              ELSE {h1}

\* ------------------------------------------------------------ heap: shape

\* The slots that are part of the tree hanging from the root.
RECURSIVE Reachable(_, _)
Reachable(h, node) ==
  IF node = NULL THEN {}
  ELSE {node} \cup Reachable(h, h[node].left) \cup Reachable(h, h[node].right)

Tree(h) == Reachable(h, 1)
Leaves(h) == {n \in Tree(h) : h[n].left = NULL}
FreeLeaves(h) == {n \in Leaves(h) : h[n].inuse = 0}
InUseLeaves(h) == {n \in Leaves(h) : h[n].inuse = 1}
RootIsFreeLeaf(h) == h[1].left = NULL /\ h[1].right = NULL /\ h[1].inuse = 0

\* ------------------------------------------------------------ heap: inputs

\* request sizes offered to malloc: both ends of every size class of the page
\* (1..4, 5..8, 9..16, 17..32, 33..64), the request 3 of the specification's
\* scenario, and one rejected size on each side
MemSizes == {0, 1, 3, 4, 5, 8, 9, 16, 17, 32, 33, 64, 65}

\* pointers offered to mfree: NULL, every 8-byte offset of the heap page,
\* one offset no block starts at, and one address on each side of the page
Ptrs ==
  {NULL, 3 * MEM_PAGESIZE + 8, 5 * MEM_PAGESIZE, VirtualAddress(4)}
    \cup {VirtualAddress(8 * k) : k \in 0 .. 7}

\* what an undefined read of an int can give back
GarbageInts == {MEM_FAIL, 0, 8}

NoCall == [op |-> "none", arg |-> 0, ret |-> 0, node |-> NULL, size |-> 0]

\* ------------------------------------------------------------ heap: malloc

\* Calls are made while every mfree so far was given a live address: a call
\* that breaks that contract is the last one followed.
Malloc(memsize) ==
  LET rejected == memsize <= 0 \/ memsize > MEM_PAGESIZE
      s1 == MemoryNodeSearch(heap_array, 1, memsize)
      s2 == MemorySplitNode(heap_array, 1, memsize)
      r  == IF rejected THEN [ret |-> -1, heap |-> heap_array, node |-> NULL]
            ELSE IF s1.ret >= 0 THEN s1 ELSE s2
      ok == r.ret >= 0
  IN  /\ clean
      /\ step < MaxCalls
      /\ heap_array' = r.heap
      /\ last' = [op |-> "malloc", arg |-> memsize,
                  ret |-> IF ok THEN VirtualAddress(r.ret) ELSE NULL,
                  node |-> r.node,
                  size |-> IF ok THEN r.heap[r.node].size ELSE 0]
      /\ live' = IF ok
                   THEN live \cup {[addr |-> r.ret, node |-> r.node,
                                    size |-> r.heap[r.node].size]}
                   ELSE live
      /\ clean' = clean
      /\ phase' = IF phase = "alloc" THEN "alloc" ELSE "mixed"
      /\ step' = step + 1
      /\ UNCHANGED frameVars
      /\ UNCHANGED procVars

\* ------------------------------------------------------------- heap: mfree

\* the live block a pointer names: the innermost one when several start there
LiveAt(a) == {b \in live : b.addr = a}
LiveBlock(a) == CHOOSE b \in LiveAt(a) : \A c \in LiveAt(a) : c.node <= b.node

Mfree(ptr) ==
  LET rejected == ptr = NULL \/ ptr >= 5 * MEM_PAGESIZE \/ ptr < 4 * MEM_PAGESIZE
      heap_address == HeapAddress(ptr)
      matches == {i \in Nodes : heap_array[i].address = heap_address}
      wasLive == ~rejected /\ LiveAt(heap_address) # {}
  IN  /\ clean
      /\ step < MaxCalls
      /\ IF rejected
           THEN /\ heap_array' = heap_array
                /\ last' = [op |-> "mfree", arg |-> ptr, ret |-> MEM_FAIL,
                            node |-> NULL, size |-> 0]
           ELSE \* the loop keeps the last match; with no match node is never assigned
                \E node \in (IF matches # {} THEN {Max(matches)} ELSE {NULL} \cup Nodes) :
                  /\ heap_array' \in MemoryCoalescing(heap_array, node)
                  /\ \E ret \in (IF node # NULL THEN {heap_array[node].size}
                                               ELSE GarbageInts) :
                       last' = [op |-> "mfree", arg |-> ptr, ret |-> ret,
                                node |-> node, size |-> ret]
      /\ live' = IF wasLive THEN live \ {LiveBlock(heap_address)} ELSE live
      /\ clean' = (clean /\ wasLive)
      /\ phase' = IF phase \in {"alloc", "free"} THEN "free" ELSE "mixed"
      /\ step' = step + 1
      /\ UNCHANGED frameVars
      /\ UNCHANGED procVars

\* ------------------------------------------------------- frames: helpers

Words == 0 .. (FREEMAP_WORDS - 1)
Bits == 0 .. (FREEMAP_WORD_BITS - 1)
ZeroWord == [b \in Bits |-> 0]

\* lastosaddress & 0x1FFFFC: bits 2..20 of the address
MaskOsAddress(a) == ((a % 2097152) \div 4) * 4

\* freemap[index] = (freemap[index] & invert(1 << bit_position)) | (val << bit_position)
MemoryEditFreemap(fm, page, val) ==
  LET index == page \div FREEMAP_WORD_BITS
      bit_position == page % FREEMAP_WORD_BITS
  IN  [fm EXCEPT ![index][bit_position] = val]

\* the frames whose freemap bit is set
SetBits(fm) ==
  {page \in 0 .. (FREEMAP_WORDS * FREEMAP_WORD_BITS - 1) :
     fm[page \div FREEMAP_WORD_BITS][page % FREEMAP_WORD_BITS] = 1}

\* for(i = pagestart; i < maxpage; i++) { nfreepages += 1; MemoryEditFreemap(i, 1); }
RECURSIVE MarkFree(_, _, _, _)
MarkFree(fm, n, i, maxpage) ==
  IF i < maxpage
    THEN MarkFree(MemoryEditFreemap(fm, i, 1), n + 1, i + 1, maxpage)
    ELSE [freemap |-> fm, nfreepages |-> n]

\* a scan that ends at the highest set bit
LastSetBit(word) == Max({b \in Bits : word[b] = 1})
\* for(bit_position = 0; (fm_segment & (1 << bit_position)) == 0; bit_position++){ }
FirstSetBit(word) == Min({b \in Bits : word[b] = 1})

\* a free that sets the bit and leaves the count
MemoryFreePageUncounted(fm, n, page) ==
  [freemap |-> MemoryEditFreemap(fm, page, 1), nfreepages |-> n]
\* MemoryEditFreemap(page, 1); nfreepages += 1;
MemoryFreePage(fm, n, page) ==
  [freemap |-> MemoryEditFreemap(fm, page, 1), nfreepages |-> n + 1]

\* ------------------------------------------------------- frames: inputs

\* MemoryGetSize(): a whole number of pages, and one with a partial last page
MemorySizes == {MaxMemPages * MEM_PAGESIZE, (MaxMemPages - 1) * MEM_PAGESIZE + 8}

\* lastosaddress: a page boundary, an unaligned address, and one in the next word
LastOsAddresses == {30 * MEM_PAGESIZE, 30 * MEM_PAGESIZE + 10, 32 * MEM_PAGESIZE + 3}

\* ------------------------------------------------------- frames: actions

\* an initialisation that starts the free frames at ospages
ModuleInitFromOsPages(fm, memsize, lastosaddress) ==
  LET maxpage == memsize \div MEM_PAGESIZE
      ospages == MaskOsAddress(lastosaddress) \div MEM_PAGESIZE
      fmmax   == (maxpage + 31) \div 32
      cleared == [w \in Words |-> IF w < fmmax THEN ZeroWord ELSE fm[w]]
      marked  == MarkFree(cleared, 0, ospages, maxpage)
  IN  [pagestart |-> ospages, freemapmax |-> fmmax,
       freemap |-> marked.freemap, nfreepages |-> marked.nfreepages]
\* the statics MemoryModuleInit leaves, from the freemap fm it finds
ModuleInitResult(fm, memsize, lastosaddress) ==
  LET maxpage == memsize \div MEM_PAGESIZE
      ospages == MaskOsAddress(lastosaddress) \div MEM_PAGESIZE
      start   == ospages + 1
      fmmax   == (maxpage + 31) \div 32
      cleared == [w \in Words |-> IF w < fmmax THEN ZeroWord ELSE fm[w]]
      marked  == MarkFree(cleared, 0, start, maxpage)
  IN  [pagestart |-> start, freemapmax |-> fmmax,
       freemap |-> marked.freemap, nfreepages |-> marked.nfreepages]

MemoryModuleInit(memsize, lastosaddress) ==
  LET r == ModuleInitResult(freemap, memsize, lastosaddress)
  IN  /\ flast.op = "none"
      /\ pagestart' = r.pagestart
      /\ freemapmax' = r.freemapmax
      /\ freemap' = r.freemap
      /\ nfreepages' = r.nfreepages
      /\ allocd' = {}
      /\ usable' = Cardinality(SetBits(r.freemap))
      /\ flast' = [op |-> "init", ret |-> 0, memsize |-> memsize,
                   lastosaddress |-> lastosaddress]
      /\ UNCHANGED heapVars
      /\ UNCHANGED procVars

\* The while loop looks at freemap[0], then at the words below freemapmax in
\* turn and around again; it ends at the first non-zero word, if there is one.
\* ends is FALSE when the while loop finds no non-zero word and never ends.
\* an allocation that takes one off the count before it tests it
AllocPageCountFirst(fm, n, fmmax) ==
  LET scanned == {w \in Words : w = 0 \/ w < fmmax}
      nonzero == {w \in scanned : fm[w] # ZeroWord}
      index == Min(nonzero)
      bit_position == FirstSetBit(fm[index])
      page == index * 32 + bit_position
  IN  IF n - 1 < 0
        THEN [ends |-> TRUE, ret |-> MEM_FAIL, freemap |-> fm, nfreepages |-> n - 1]
      ELSE IF nonzero = {}
        THEN [ends |-> FALSE, ret |-> MEM_FAIL, freemap |-> fm, nfreepages |-> n]
      ELSE [ends |-> TRUE, ret |-> page,
            freemap |-> [fm EXCEPT ![index][bit_position] = 0],
            nfreepages |-> n - 1]
AllocPageResult(fm, n, fmmax) ==
  LET scanned == {w \in Words : w = 0 \/ w < fmmax}
      nonzero == {w \in scanned : fm[w] # ZeroWord}
      index == Min(nonzero)
      bit_position == FirstSetBit(fm[index])
      page == index * 32 + bit_position
  IN  IF n = 0
        THEN [ends |-> TRUE, ret |-> MEM_FAIL, freemap |-> fm, nfreepages |-> n]
      ELSE IF nonzero = {}
        THEN [ends |-> FALSE, ret |-> MEM_FAIL, freemap |-> fm, nfreepages |-> n]
      ELSE [ends |-> TRUE, ret |-> page,
            freemap |-> [fm EXCEPT ![index][bit_position] = 0],
            nfreepages |-> n - 1]

MemoryAllocPage ==
  LET r == AllocPageResult(freemap, nfreepages, freemapmax)
  IN  /\ flast.op # "none"
      /\ r.ends
      /\ freemap' = r.freemap
      /\ nfreepages' = r.nfreepages
      /\ allocd' = IF r.ret = MEM_FAIL THEN allocd ELSE allocd \cup {r.ret}
      /\ flast' = [op |-> "alloc", ret |-> r.ret]
      /\ UNCHANGED <<pagestart, freemapmax, usable>>
      /\ UNCHANGED heapVars
      /\ UNCHANGED procVars

\* The caller's contract: only a frame that is allocated is freed.
FreePage(page) ==
  LET r == MemoryFreePage(freemap, nfreepages, page)
  IN  /\ flast.op # "none"
      /\ page \in allocd
      /\ freemap' = r.freemap
      /\ nfreepages' = r.nfreepages
      /\ allocd' = allocd \ {page}
      /\ flast' = [op |-> "free", ret |-> page]
      /\ UNCHANGED <<pagestart, freemapmax, usable>>
      /\ UNCHANGED heapVars
      /\ UNCHANGED procVars

\* ---------------------------------------------------- page table: helpers

Pages == 0 .. (MEM_NUM_PTES - 1)

\* a value converted to uint32
ToUint(x) == x % UINT_MODULUS

\* a | b on non-negative values
RECURSIVE BitOr(_, _)
BitOr(a, b) ==
  IF a = 0 THEN b
  ELSE IF b = 0 THEN a
  ELSE (IF a % 2 = 1 \/ b % 2 = 1 THEN 1 ELSE 0) + 2 * BitOr(a \div 2, b \div 2)

\* MEM_ADDR2PAGE(addr), MEM_ADDR2OFFS(addr)
MEM_ADDR2PAGE(addr) == addr \div MEM_PAGESIZE
MEM_ADDR2OFFS(addr) == addr % MEM_PAGESIZE

\* pte & MEM_PTE_VALID
PteValid(pte) == pte % (2 * MEM_PTE_VALID) >= MEM_PTE_VALID
\* pte & MEM_MASK_PTE2PAGE
PtePage(pte) == pte - (pte % MEM_PTE_FLAGS)

\* an entry built without the valid bit
SetupPteInvalid(page) == ToUint(page * MEM_PAGESIZE)
\* ((page * MEM_PAGESIZE) | MEM_PTE_VALID)
MemorySetupPte(page) == BitOr(ToUint(page * MEM_PAGESIZE), MEM_PTE_VALID)

\* a translation that drops the offset
TranslateNoOffset(pt, addr) ==
  IF PteValid(pt[MEM_ADDR2PAGE(addr)])
    THEN PtePage(pt[MEM_ADDR2PAGE(addr)])
    ELSE ToUint(MEM_FAIL)
MemoryTranslateUserToSystem(pt, addr) ==
  LET page == MEM_ADDR2PAGE(addr)
      offset == MEM_ADDR2OFFS(addr)
  IN  IF PteValid(pt[page])
        THEN BitOr(PtePage(pt[page]), offset)
        ELSE ToUint(MEM_FAIL)

\* MemoryFreePage((pte & MEM_MASK_PTE2PAGE) / MEM_PAGESIZE)
PteFrame(pte) == PtePage(pte) \div MEM_PAGESIZE
MemoryFreePageTableEntry(fm, n, pte) == MemoryFreePage(fm, n, PteFrame(pte))

\* user_stack_ptr &= 0x1FF000: the page bits of an address of the address
\* space (2 MB of 4096-byte pages in the source)
StackPage(sp) == (sp % (MEM_NUM_PTES * MEM_PAGESIZE)) - (sp % MEM_PAGESIZE)

\* a test that takes no fault for a violation
NeverSegFault(fault_addr, user_stack_ptr) == FALSE
\* fault_addr < user_stack_ptr
IsSegFault(fault_addr, user_stack_ptr) == fault_addr < StackPage(user_stack_ptr)

\* The while loop of MemoryMoveBetweenSpaces: the bytes copied and the user
\* addresses copied to or from, from the user address and count it is at.
RECURSIVE MoveLoop(_, _, _, _, _)
MoveLoop(pt, user, n, bytesCopied, touched) ==
  IF n <= 0 THEN [ret |-> bytesCopied, touched |-> touched]
  ELSE
    LET curUser == MemoryTranslateUserToSystem(pt, user)
        inPage  == MEM_PAGESIZE - (curUser % MEM_PAGESIZE)
        bytesToCopy == IF inPage > n THEN n ELSE inPage
    IN  IF curUser = 0 THEN [ret |-> bytesCopied, touched |-> touched]
        ELSE MoveLoop(pt, user + bytesToCopy, n - bytesToCopy,
                      bytesCopied + bytesToCopy,
                      touched \cup (user .. (user + bytesToCopy - 1)))

MemoryMoveBetweenSpaces(pt, user, n, dir) == MoveLoop(pt, user, n, 0, {})

\* ----------------------------------------------------- page table: inputs

\* saved user stack pointers, in pages 5, 6 and 7
StackPointers == {5 * MEM_PAGESIZE + 8, 6 * MEM_PAGESIZE, 7 * MEM_PAGESIZE + 60}
\* saved fault addresses: the beginning of pages 4 .. 7
FaultAddresses == {p * MEM_PAGESIZE : p \in 4 .. 7}
\* addresses translated: the first, an inner and the last byte of pages 4 .. 7
UserAddresses == {p * MEM_PAGESIZE + o : p \in 4 .. 7, o \in {0, 17, MEM_PAGESIZE - 1}}
\* copies: from 24 bytes before the end of page 5 or 6, up to 16 bytes into the next
CopyStarts == {5 * MEM_PAGESIZE + 40, 6 * MEM_PAGESIZE + 40}
CopyLengths == {0, 10, 24, 40}

\* ---------------------------------------------------- page table: actions

PageFault(user_stack_ptr, fault_addr) ==
  LET pg_fault_addr == MEM_ADDR2PAGE(fault_addr)
      r == AllocPageResult(freemap, nfreepages, freemapmax)
  IN  /\ ~killed
      /\ IF IsSegFault(fault_addr, user_stack_ptr)
           THEN /\ killed' = TRUE
                /\ plast' = [op |-> "fault", a |-> fault_addr, b |-> user_stack_ptr,
                             ret |-> MEM_FAIL, aux |-> MEM_FAIL]
                /\ UNCHANGED <<pagetable, npages, installed, freemap, nfreepages,
                               allocd, flast>>
           ELSE /\ r.ends
                \* ProcessKill() returns, and the handler goes on
                /\ killed' = (r.ret = MEM_FAIL)
                /\ freemap' = r.freemap
                /\ nfreepages' = r.nfreepages
                /\ allocd' = IF r.ret = MEM_FAIL THEN allocd ELSE allocd \cup {r.ret}
                /\ flast' = [op |-> "alloc", ret |-> r.ret]
                /\ pagetable' = [pagetable EXCEPT ![pg_fault_addr] = MemorySetupPte(r.ret)]
                /\ installed' = [installed EXCEPT ![pg_fault_addr] = r.ret]
                /\ npages' = npages + 1
                /\ plast' = [op |-> "fault", a |-> fault_addr, b |-> user_stack_ptr,
                             ret |-> MEM_SUCCESS, aux |-> r.ret]
      /\ UNCHANGED <<pagestart, freemapmax, usable>>
      /\ UNCHANGED heapVars

\* The owner of a page gives its frame back with MemoryFreePageTableEntry
\* and marks the entry invalid.
FreePte(p) ==
  LET r == MemoryFreePageTableEntry(freemap, nfreepages, pagetable[p])
  IN  /\ ~killed
      /\ PteValid(pagetable[p])
      /\ freemap' = r.freemap
      /\ nfreepages' = r.nfreepages
      /\ allocd' = allocd \ {PteFrame(pagetable[p])}
      /\ flast' = [op |-> "free", ret |-> PteFrame(pagetable[p])]
      /\ pagetable' = [pagetable EXCEPT ![p] = 0]
      /\ installed' = [installed EXCEPT ![p] = MEM_FAIL]
      /\ npages' = npages - 1
      /\ plast' = [op |-> "freepte", a |-> p, b |-> 0, ret |-> 0, aux |-> 0]
      /\ UNCHANGED <<pagestart, freemapmax, usable, killed>>
      /\ UNCHANGED heapVars

Translate(addr) ==
  /\ ~killed
  /\ plast' = [op |-> "translate", a |-> addr, b |-> 0,
               ret |-> MemoryTranslateUserToSystem(pagetable, addr), aux |-> 0]
  /\ UNCHANGED <<pagetable, npages, killed, installed>>
  /\ UNCHANGED frameVars
  /\ UNCHANGED heapVars

\* MemoryCopySystemToUser (dir 1) and MemoryCopyUserToSystem (dir -1)
Copy(user, n, dir) ==
  LET r == MemoryMoveBetweenSpaces(pagetable, user, n, dir)
  IN  /\ ~killed
      /\ plast' = [op |-> "copy", a |-> user, b |-> n, ret |-> r.ret, aux |-> r.touched]
      /\ UNCHANGED <<pagetable, npages, killed, installed>>
      /\ UNCHANGED frameVars
      /\ UNCHANGED heapVars

\* ----------------------------------------------------------- specification

HeapGhostInit ==
  /\ live = {}
  /\ clean = TRUE
  /\ phase = "alloc"
  /\ step = 0
  /\ last = NoCall

\* the statics of memory.c before MemoryModuleInit runs: all zero
FrameZero ==
  /\ freemap = [w \in Words |-> ZeroWord]
  /\ nfreepages = 0
  /\ pagestart = 0
  /\ freemapmax = 0
  /\ allocd = {}
  /\ usable = 0
  /\ flast = [op |-> "none", ret |-> 0]

\* a process that has no page mapped yet
ProcZero ==
  /\ pagetable = [p \in 0 .. (MEM_NUM_PTES - 1) |-> 0]
  /\ npages = 0
  /\ killed = FALSE
  /\ installed = [p \in 0 .. (MEM_NUM_PTES - 1) |-> MEM_FAIL]
  /\ plast = [op |-> "none", a |-> 0, b |-> 0, ret |-> 0, aux |-> 0]

Init ==
  /\ heap_array = HeapInit
  /\ HeapGhostInit
  /\ FrameZero
  /\ ProcZero

\* the buddy heap of one process
Next ==
  \/ \E memsize \in MemSizes : Malloc(memsize)
  \/ \E ptr \in Ptrs : Mfree(ptr)

Spec == Init /\ [][Next]_vars

\* the frame allocator
FrameNext ==
  \/ \E memsize \in MemorySizes, lastosaddress \in LastOsAddresses :
       MemoryModuleInit(memsize, lastosaddress)
  \/ MemoryAllocPage
  \/ \E page \in 0 .. (MaxMemPages - 1) : FreePage(page)

FrameSpec == Init /\ [][FrameNext]_vars

\* the page table of one process, over a memory MemoryModuleInit has set up
\* with MaxProcFrames free frames: 31, 32, ...
ProcInitMemory == ModuleInitResult([w \in Words |-> ZeroWord],
                                   (31 + MaxProcFrames) * MEM_PAGESIZE,
                                   30 * MEM_PAGESIZE + 10)

ProcInit ==
  /\ heap_array = HeapInit
  /\ HeapGhostInit
  /\ ProcZero
  /\ freemap = ProcInitMemory.freemap
  /\ nfreepages = ProcInitMemory.nfreepages
  /\ pagestart = ProcInitMemory.pagestart
  /\ freemapmax = ProcInitMemory.freemapmax
  /\ allocd = {}
  /\ usable = Cardinality(SetBits(ProcInitMemory.freemap))
  /\ flast = [op |-> "init", ret |-> 0, memsize |-> (31 + MaxProcFrames) * MEM_PAGESIZE,
              lastosaddress |-> 30 * MEM_PAGESIZE + 10]

ProcNext ==
  \/ \E sp \in StackPointers, fault \in FaultAddresses : PageFault(sp, fault)
  \/ \E p \in Pages : FreePte(p)
  \/ \E addr \in UserAddresses : Translate(addr)
  \/ \E user \in CopyStarts, n \in CopyLengths, dir \in {1, -1} : Copy(user, n, dir)

ProcSpec == ProcInit /\ [][ProcNext]_vars

\* ------------------------------------------------------------ properties

\* the step taken is a call of malloc / of mfree
MallocStep == step' = step + 1 /\ last'.op = "malloc"
MfreeStep == step' = step + 1 /\ last'.op = "mfree"

\* the byte range of a live block
Range(b) == b.addr .. (b.addr + b.size - 1)

\* the other child of a node's parent
Buddy(h, n) ==
  LET p == h[n].parent
  IN  IF p = NULL THEN NULL
      ELSE IF h[p].left = n THEN h[p].right ELSE h[p].left

\* a node that is an allocated leaf, or a split node with one beneath it
HoldsAllocation(h, n) == n # NULL /\ (Reachable(h, n) \cap InUseLeaves(h)) # {}

\* C1: while mfree is only given live addresses, the byte ranges of the live
\* blocks are pairwise disjoint (so malloc never hands out the address of a
\* block that is still allocated).
C1_NoOverlap ==
  clean => \A b \in live : \A c \in live : b # c => Range(b) \cap Range(c) = {}

\* C2: a malloc that returns an address marked a leaf of the tree that was
\* not in use, of a size s with r <= s < 2*r for the request r, and the
\* address returned is that leaf's.
C2_BuddySizing ==
  [][(MallocStep /\ last'.ret # NULL) =>
       /\ last'.node \in InUseLeaves(heap_array')
       /\ heap_array[last'.node].inuse = 0
       /\ last'.size = heap_array'[last'.node].size
       /\ last'.ret = VirtualAddress(heap_array'[last'.node].address)
       /\ last'.arg <= last'.size
       /\ last'.size < 2 * last'.arg]_vars

\* C2 witness: a request of 9 bytes served, after earlier frees, by a
\* 16-byte block that is not the first block of the page
C2_Witness ==
  /\ last.op = "malloc" /\ last.arg = 9 /\ last.size = 16
  /\ last.ret # NULL /\ last.ret # VirtualAddress(0)
  /\ phase = "mixed"

\* C3: malloc(r) with 0 < r <= MEM_PAGESIZE fails only when the tree has no
\* free leaf of size >= r.
C3_SatisfiedWhenRoom ==
  [][(/\ MallocStep
      /\ last'.arg > 0 /\ last'.arg <= MEM_PAGESIZE
      /\ \E n \in FreeLeaves(heap_array) : heap_array[n].size >= last'.arg)
       => last'.ret # NULL]_vars

\* the tree after the root was split down to order 0 along the leftmost path
LeftmostSplit(h) ==
  /\ Tree(h) = {1, 2, 3, 4, 5, 8, 9}
  /\ InUseLeaves(h) = {8}
  /\ h[8].order = 0 /\ h[8].size = 8 /\ h[8].address = 0

\* C4: on a fresh heap malloc(5) returns the size-8 block at heap address 0
\* after splitting the root down to order 0 along the leftmost path, and the
\* malloc(3) that follows returns the size-8 block at heap address 8.
C4_Scenario ==
  [][/\ (step = 0 /\ MallocStep /\ last'.arg = 5) =>
          /\ last'.ret = VirtualAddress(0)
          /\ last'.size = 8
          /\ LeftmostSplit(heap_array')
     /\ (step = 1 /\ last.op = "malloc" /\ last.arg = 5
           /\ MallocStep /\ last'.arg = 3) =>
          /\ last'.ret = VirtualAddress(8)
          /\ last'.size = 8]_vars

\* C5: mfree of the address of a live block clears the inuse flag of exactly
\* the leaf malloc marked for it and returns that leaf's size.
C5_FreesItsLeaf ==
  [][(MfreeStep /\ clean') =>
       LET b == LiveBlock(HeapAddress(last'.arg))
       IN  /\ heap_array'[b.node].inuse = 0
           /\ \A m \in Nodes \ {b.node} : heap_array'[m].inuse = heap_array[m].inuse
           /\ last'.ret = b.size]_vars

\* C6: after a sequence of mallocs followed by freeing every block they
\* returned, the heap is one free unsplit root again.
C6_FullCoalescence ==
  (clean /\ phase \in {"alloc", "free"} /\ live = {}) => RootIsFreeLeaf(heap_array)

\* C6, when at least one block was allocated and freed
C6_AfterSomeFree ==
  (clean /\ phase = "free" /\ live = {}) => RootIsFreeLeaf(heap_array)

\* C7: from a heap whose live blocks are all allocated leaves of the tree,
\* freeing a block whose buddy is allocated, or is split with an allocated
\* leaf beneath it, leaves the parent split and every other live block an
\* allocated leaf of the tree.
C7_CoalesceOnlyFreeBuddy ==
  [][(/\ MfreeStep /\ clean'
      /\ \A c \in live : c.node \in InUseLeaves(heap_array)
      /\ HoldsAllocation(heap_array,
                         Buddy(heap_array, LiveBlock(HeapAddress(last'.arg)).node)))
       => LET n == LiveBlock(HeapAddress(last'.arg)).node
          IN  /\ heap_array'[heap_array[n].parent].left # NULL
              /\ heap_array'[heap_array[n].parent].right # NULL
              /\ \A c \in live' : c.node \in InUseLeaves(heap_array')]_vars

\* C8: mfree of an address of the heap page that is the address of no node
\* returns MEM_FAIL and leaves heap_array as it was.
C8_UnmatchedFreeFails ==
  [][(/\ MfreeStep
      /\ last'.arg >= 4 * MEM_PAGESIZE /\ last'.arg < 5 * MEM_PAGESIZE
      /\ \A i \in Nodes : heap_array[i].address # HeapAddress(last'.arg))
       => (last'.ret = MEM_FAIL /\ heap_array' = heap_array)]_vars

\* C9: once initialised, the free count is the number of set bits of the
\* freemap, and free count plus frames handed out is the number of frames
\* MemoryModuleInit made usable.
C9_FrameConservation ==
  flast.op # "none" =>
    /\ nfreepages = Cardinality(SetBits(freemap))
    /\ nfreepages + Cardinality(allocd) = usable

\* C9 witness: a frame was given back while others are still handed out
C9_Witness ==
  flast.op = "free" /\ Cardinality(allocd) >= 2 /\ nfreepages >= 2

\* C10: with a free frame in the freemap, MemoryAllocPage returns the lowest
\* frame whose bit is set, clears exactly that bit and takes one off the
\* free count.
C10_LowestFrame ==
  [][(flast'.op = "alloc" /\ SetBits(freemap) # {}) =>
       /\ flast'.ret = Min(SetBits(freemap))
       /\ SetBits(freemap') = SetBits(freemap) \ {flast'.ret}
       /\ nfreepages' = nfreepages - 1]_vars

\* C10 witness: frame 31 is handed out again (lowest) while frame 33 of the
\* next freemap word is free and frame 32 is still handed out
C10_Witness ==
  /\ flast.op = "alloc" /\ flast.ret = 31
  /\ 32 \in allocd
  /\ 33 \in SetBits(freemap)

\* C11: with a free count of zero, MemoryAllocPage returns MEM_FAIL and
\* leaves the freemap and the free count as they were.
C11_Exhaustion ==
  [][(flast'.op = "alloc" /\ nfreepages = 0) =>
       /\ flast'.ret = MEM_FAIL
       /\ freemap' = freemap
       /\ nfreepages' = nfreepages]_vars

\* C11 witness: an allocation failed with every usable frame handed out
C11_Witness ==
  /\ flast.op = "alloc" /\ flast.ret = MEM_FAIL
  /\ nfreepages = 0
  /\ Cardinality(allocd) = usable /\ usable > 0

\* the faulting address lies in a page below the page of the stack pointer
BelowStack(fault_addr, user_stack_ptr) ==
  MEM_ADDR2PAGE(fault_addr) < MEM_ADDR2PAGE(user_stack_ptr)

\* a page fault was handled in this step, for an access that is no violation
GrowthFaultStep ==
  /\ plast'.op = "fault"
  /\ ~BelowStack(plast'.a, plast'.b)

\* C12: a page fault of a legal stack-growth access taken with no free frame
\* kills the process and returns MEM_FAIL, and neither installs a page-table
\* entry nor counts a mapped page.
C12_FaultOnExhaustion ==
  [][(GrowthFaultStep /\ nfreepages = 0) =>
       /\ killed'
       /\ plast'.ret = MEM_FAIL
       /\ pagetable' = pagetable
       /\ npages' = npages]_vars

\* C13: a page fault of a legal stack-growth access taken with a free frame
\* takes exactly one frame, installs for the faulting page a valid entry
\* mapping that frame, counts one more mapped page, leaves the process alive
\* and returns MEM_SUCCESS.
C13_StackGrowth ==
  [][(GrowthFaultStep /\ nfreepages > 0) =>
       LET page == MEM_ADDR2PAGE(plast'.a)
           taken == SetBits(freemap) \ SetBits(freemap')
       IN  /\ Cardinality(taken) = 1
           /\ SetBits(freemap') \subseteq SetBits(freemap)
           /\ nfreepages' = nfreepages - 1
           /\ PteValid(pagetable'[page])
           /\ taken = {PteFrame(pagetable'[page])}
           /\ \A p \in Pages \ {page} : pagetable'[p] = pagetable[p]
           /\ npages' = npages + 1
           /\ ~killed'
           /\ plast'.ret = MEM_SUCCESS]_vars

\* C13 witness: the stack grew by a second page, into a frame of the next
\* freemap word
C13_Witness ==
  /\ plast.op = "fault" /\ plast.ret = MEM_SUCCESS /\ ~killed
  /\ plast.aux = 32
  /\ npages = 2
  /\ PteValid(pagetable[MEM_ADDR2PAGE(plast.a)])

\* C14: a page fault below the page of the user stack pointer kills the
\* process and returns MEM_FAIL; no frame is taken, no page-table entry
\* changes and the count of mapped pages stays.
C14_SegFault ==
  [][(plast'.op = "fault" /\ BelowStack(plast'.a, plast'.b)) =>
       /\ killed'
       /\ plast'.ret = MEM_FAIL
       /\ freemap' = freemap
       /\ nfreepages' = nfreepages
       /\ pagetable' = pagetable
       /\ npages' = npages]_vars

\* C14 witness: a process with a mapped page was killed for a fault below
\* its stack page, with frames still free
C14_Witness ==
  /\ plast.op = "fault" /\ plast.ret = MEM_FAIL /\ killed
  /\ BelowStack(plast.a, plast.b)
  /\ npages = 1 /\ nfreepages > 0

\* the bytes from user on, of n, that lie before the first page with no
\* valid entry
BytesBeforeUnmapped(pt, user, n) ==
  LET unmapped == {k \in 0 .. (n - 1) : ~PteValid(pt[MEM_ADDR2PAGE(user + k)])}
  IN  IF unmapped = {} THEN n ELSE Min(unmapped)

\* C15: a cross-space copy stops at the first page with no valid entry:
\* it returns the number of bytes that lie in the mapped pages before it and
\* copies no byte to or from a user address of an unmapped page.
C15_PartialCopy ==
  plast.op = "copy" =>
    /\ plast.ret = BytesBeforeUnmapped(pagetable, plast.a, plast.b)
    /\ \A addr \in plast.aux : PteValid(pagetable[MEM_ADDR2PAGE(addr)])

\* C16: a user address in a page mapped to frame f translates to
\* f * MEM_PAGESIZE plus the offset in the page; an address in a page with
\* no valid entry translates to MEM_FAIL.
C16_Translation ==
  plast.op = "translate" =>
    LET page == plast.a \div MEM_PAGESIZE
        offset == plast.a % MEM_PAGESIZE
    IN  IF installed[page] # MEM_FAIL
          THEN /\ PteValid(pagetable[page])
               /\ plast.ret = installed[page] * MEM_PAGESIZE + offset
          ELSE /\ ~PteValid(pagetable[page])
               /\ plast.ret = ToUint(MEM_FAIL)

\* C16 witness: the last byte of a page mapped to a frame of the second
\* freemap word was translated, with another page unmapped again
C16_Witness ==
  /\ plast.op = "translate"
  /\ plast.a % MEM_PAGESIZE = MEM_PAGESIZE - 1
  /\ installed[plast.a \div MEM_PAGESIZE] = 32
  /\ plast.ret = 32 * MEM_PAGESIZE + MEM_PAGESIZE - 1
  /\ nfreepages = MaxProcFrames - 1

\* C17: every valid page-table entry names a frame that the freemap has and
\* marks allocated.
C17_PteFrameAllocated ==
  \A p \in Pages :
    PteValid(pagetable[p]) =>
      /\ PteFrame(pagetable[p]) \in pagestart .. (FREEMAP_WORDS * FREEMAP_WORD_BITS - 1)
      /\ PteFrame(pagetable[p]) \notin SetBits(freemap)
      /\ PteFrame(pagetable[p]) \in allocd

\* C18: a malloc that returns NULL leaves heap_array as it was.
C18_FailedMallocKeepsTree ==
  [][(MallocStep /\ last'.ret = NULL) => heap_array' = heap_array]_vars

\* node i of h is split into two halves: a left child at its address and a
\* right child right after it, each of half its size and one order below
SplitInHalves(h, i) ==
  LET n == h[i]
      l == h[n.left]
      r == h[n.right]
  IN  /\ n.left # NULL /\ n.right # NULL /\ n.left # n.right
      /\ l.parent = i /\ r.parent = i
      /\ l.size * 2 = n.size /\ r.size * 2 = n.size
      /\ l.order = n.order - 1 /\ r.order = n.order - 1
      /\ l.address = n.address
      /\ r.address = n.address + n.size \div 2
      /\ r.address = l.address + l.size
      /\ l.size + r.size = n.size

\* C19: splitting a free leaf of size S, order k and address A gives it a
\* left child at A and a right child at A + S/2, each of size S/2 and order
\* k - 1 and each a leaf; and every split node of the tree keeps children
\* with right address = left address + left size and sizes adding up to S.
C19_SplitCorrect ==
  /\ \A i \in Tree(heap_array) :
       heap_array[i].left # NULL => SplitInHalves(heap_array, i)
  /\ \A i \in FreeLeaves(heap_array) :
       heap_array[i].order > 0 =>
         LET h == SplitChildren(heap_array, i)
         IN  /\ SplitInHalves(h, i)
             /\ h[h[i].left].left = NULL /\ h[h[i].left].right = NULL
             /\ h[h[i].right].left = NULL /\ h[h[i].right].right = NULL

\* C19 witness: malloc split the root and its left child, handed out a
\* block of the left quarter and left the right half a free leaf that can
\* be split
C19_Witness ==
  /\ last.op = "malloc" /\ last.ret # NULL
  /\ heap_array[1].left # NULL
  /\ heap_array[heap_array[1].left].left # NULL
  /\ heap_array[1].right \in FreeLeaves(heap_array)

\* the frames of the freemap
Frames == 0 .. (FREEMAP_WORDS * FREEMAP_WORD_BITS - 1)

\* the frames from first on that a memory of memsize bytes has
FramesFrom(first, memsize) == {i \in Frames : first <= i /\ i < memsize \div MEM_PAGESIZE}

\* C20 as stated: after MemoryModuleInit frame i is free exactly when
\* ceil(lastosaddress / MEM_PAGESIZE) <= i < memsize / MEM_PAGESIZE, every
\* other frame is allocated, and the free count is the number of free
\* frames; also when lastosaddress is a multiple of the page size.
C20_FreeFromCeiling ==
  flast.op = "init" =>
    /\ SetBits(freemap) =
         FramesFrom((flast.lastosaddress + MEM_PAGESIZE - 1) \div MEM_PAGESIZE,
                    flast.memsize)
    /\ nfreepages = Cardinality(SetBits(freemap))

\* C20 amended: after MemoryModuleInit frame i is free exactly when
\* floor(lastosaddress / MEM_PAGESIZE) + 1 <= i < memsize / MEM_PAGESIZE,
\* every other frame is allocated, and the free count is the number of free
\* frames; when lastosaddress is a multiple of the page size the frame that
\* begins at lastosaddress stays allocated.
C20_FreeAfterOsFrame ==
  flast.op = "init" =>
    /\ SetBits(freemap) =
         FramesFrom(flast.lastosaddress \div MEM_PAGESIZE + 1, flast.memsize)
    /\ nfreepages = Cardinality(SetBits(freemap))

\* C20 witness: initialised with the operating system ending on a frame
\* boundary and at least two frames left free
C20_Witness ==
  /\ flast.op = "init"
  /\ flast.lastosaddress % MEM_PAGESIZE = 0
  /\ nfreepages >= 2
  /\ (flast.lastosaddress \div MEM_PAGESIZE) \notin SetBits(freemap)

====
